---------------------------- MODULE Spec2Model ----------------------------
(* State machine of backend/server.js: the Express server that stages an   *)
(* image and a video in an object store, submits a motion-control task to  *)
(* the external API, polls it, and returns a watermarked copy of the       *)
(* result.  One action per handler step between two awaits.                *)
EXTENDS Integers, Sequences, FiniteSets, TLC

(***************************************************************************)
(* Bounds of the model                                                     *)
(***************************************************************************)
\* the clock (Date.now(), in ms) advances in steps of TickMs up to MaxClock
TickMs == 500
MaxClock == 1000
\* number of requests the server accepts in one behaviour
MaxRequests == 2

(***************************************************************************)
(* Program constants                                                       *)
(***************************************************************************)
MulterFileSize == 104857600
ImageMaxSize == 10485760
VideoMaxSize == 104857600
JwtExpSeconds == 1800
JwtNbfSeconds == 5

\* the requests the server can have in flight at once
Slots == {1, 2}
\* the request slots of the server
Reqs == {1}

\* values the environment can hand to the program
Absent == <<"undefined">>
CredentialValues == {Absent, <<>>, <<" ">>, <<" ", "k", " ">>}
ImageSizes == {ImageMaxSize, ImageMaxSize + 1, MulterFileSize + 1}
VideoSizes == {VideoMaxSize, VideoMaxSize + 1}
ImageExts == {".png"}
VideoExts == {".mp4"}
FieldValues == {"", "x"}
TaskIds == {"t1"}
UpstreamStatuses == {401, 429}
UpstreamMessages == {<<>>, <<"">>, <<"Auth failed">>}
TaskStatuses == {"processing", "failed", "succeed"}
\* the values Math.round(Math.random() * 1E9) takes
RandomDraws == {0, 1}

SeqToSet(s) == {s[i] : i \in 1..Len(s)}

(***************************************************************************)
(* String helpers (strings that are trimmed are sequences of characters)   *)
(***************************************************************************)
RECURSIVE TrimLeft(_)
TrimLeft(s) == IF s # <<>> /\ Head(s) = " " THEN TrimLeft(Tail(s)) ELSE s

RECURSIVE TrimRight(_)
TrimRight(s) ==
    IF s # <<>> /\ s[Len(s)] = " " THEN TrimRight(SubSeq(s, 1, Len(s) - 1)) ELSE s

\* String.prototype.trim
Trim(s) == TrimRight(TrimLeft(s))

\* a credential that is undefined or empty once trimmed
Blank(credential) == credential = Absent \/ Trim(credential) = <<>>

\* a || b on strings: the empty string is falsy
OrElse(a, b) == IF a = "" THEN b ELSE a

\* Math.floor(Date.now() / 1000)
Seconds(ms) == ms \div 1000

(***************************************************************************)
(* File names under uploads/                                               *)
(***************************************************************************)
\* multer.diskStorage filename: Date.now() + '-' + random + extname
UploadName(ts, rnd, ext) == <<"", "", ts, rnd, ext>>

\* temp-input-<taskId>-<Date.now()>.mp4 / temp-output-<taskId>-<Date.now()>.mp4
TempName(prefix, taskId, ts) == <<prefix, taskId, ts, 0, ".mp4">>

VARIABLES
    clock,              \* Date.now()
    KLING_ACCESS_KEY,   \* process.env.KLING_ACCESS_KEY
    KLING_SECRET_KEY,   \* process.env.KLING_SECRET_KEY
    S3_ENABLED,         \* process.env.S3_ENABLED === 'true'
    logoExists,         \* fsSync.existsSync(LOGO_PATH)
    disk,               \* files present under uploads/
    served,             \* requests accepted so far
    route,              \* per request: the endpoint
    pc,                 \* per request: position in the handler
    body,               \* per request: what the client sent
    files,              \* per request: req.files as left by multer
    uploadedFiles,      \* per request: uploadedFiles of /api/generate
    tempFiles,          \* per request: tempFiles of /api/download
    imageUrl,           \* per request: imageUrl (set, empty = unassigned)
    videoUrl,           \* per request: videoUrl (set, empty = unassigned)
    payload,            \* per request: requestPayload sent to the external API
    token,              \* per request: tokens returned by generateJwtToken
    upstream,           \* per request: the answer of the external API seen so far
    calls,              \* per request: log of the remote calls and tool runs
    unlinked,           \* per request: paths fs.unlink was called on
    res                 \* per request: the response sent (sequence, empty = none)

vars == <<clock, KLING_ACCESS_KEY, KLING_SECRET_KEY, S3_ENABLED, logoExists,
          disk, served, route, pc, body, files, uploadedFiles, tempFiles,
          imageUrl, videoUrl, payload, token, upstream, calls, unlinked, res>>

env == <<KLING_ACCESS_KEY, KLING_SECRET_KEY, S3_ENABLED, logoExists>>

NoBody == [image |-> <<>>, video |-> <<>>, character_orientation |-> "",
           mode |-> "", taskId |-> ""]
NoFiles == [image |-> <<>>, video |-> <<>>]

Init ==
    /\ clock = 0
    /\ KLING_ACCESS_KEY \in CredentialValues
    /\ KLING_SECRET_KEY \in CredentialValues
    /\ S3_ENABLED \in BOOLEAN
    /\ logoExists \in BOOLEAN
    /\ disk = {}
    /\ served = 0
    /\ route = [r \in Slots |-> "none"]
    /\ pc = [r \in Slots |-> "idle"]
    /\ body = [r \in Slots |-> NoBody]
    /\ files = [r \in Slots |-> NoFiles]
    /\ uploadedFiles = [r \in Slots |-> <<>>]
    /\ tempFiles = [r \in Slots |-> <<>>]
    /\ imageUrl = [r \in Slots |-> {}]
    /\ videoUrl = [r \in Slots |-> {}]
    /\ payload = [r \in Slots |-> {}]
    /\ token = [r \in Slots |-> {}]
    /\ upstream = [r \in Slots |-> <<>>]
    /\ calls = [r \in Slots |-> <<>>]
    /\ unlinked = [r \in Slots |-> {}]
    /\ res = [r \in Slots |-> <<>>]

\* time passes between two steps of the event loop
Tick ==
    /\ clock + TickMs <= MaxClock
    /\ clock' = clock + TickMs
    /\ UNCHANGED <<env, disk, served, route, pc, body, files, uploadedFiles,
                   tempFiles, imageUrl, videoUrl, payload, token, upstream,
                   calls, unlinked, res>>


(***************************************************************************)
(* Token Signer                                                            *)
(***************************************************************************)
Threw(msg) == [threw |-> TRUE, message |-> msg, token |-> {}]

\* jwt.sign(payload, secret, {algorithm: 'HS256'}) called when Date.now() = now:
\* an empty secret is refused, and the issued-at claim is stamped from the
\* clock at the time of the call
JwtSign(jwtPayload, secret, now) ==
    IF secret = <<>>
    THEN Threw("secretOrPrivateKey must have a value")
    ELSE [threw |-> FALSE, message |-> "",
          token |-> {[iss |-> jwtPayload.iss, exp |-> jwtPayload.exp,
                      nbf |-> jwtPayload.nbf, iat |-> Seconds(now)]}]

\* generateJwtToken(): currentTime is read when Date.now() = t1, jwt.sign
\* runs when Date.now() = t2
generateJwtToken(t1, t2) ==
    IF KLING_ACCESS_KEY = Absent \/ KLING_SECRET_KEY = Absent
    THEN Threw("Cannot read properties of undefined (reading 'trim')")
    ELSE LET currentTime == Seconds(t1)
             jwtPayload == [iss |-> Trim(KLING_ACCESS_KEY),
                            exp |-> currentTime + JwtExpSeconds,
                            nbf |-> currentTime - JwtNbfSeconds]
         IN  JwtSign(jwtPayload, Trim(KLING_SECRET_KEY), t2)

\* the clock readings one run of generateJwtToken can see
SignDelays == {d \in {0, TickMs} : clock + d <= MaxClock}

(***************************************************************************)
(* Errors and the responses built from them                                *)
(***************************************************************************)
\* an Error thrown locally: no response attached
ThrownError(msg) == [response |-> <<>>, message |-> msg]

\* the answers the external API (through axios) can give to one call
AxiosStatusMessage(status) ==
    IF status = 401 THEN "Request failed with status code 401"
    ELSE IF status = 429 THEN "Request failed with status code 429"
    ELSE "Request failed"

ErrorBodies == {<<>>} \cup {<<[message |-> m]>> : m \in UpstreamMessages}

\* AxiosError with a response: the API answered with a non-2xx status
UpstreamErrors ==
    {[response |-> <<[status |-> s, data |-> b]>>, message |-> AxiosStatusMessage(s)] :
        s \in UpstreamStatuses, b \in ErrorBodies}

\* AxiosError without a response: timeout, DNS, connection reset
TransportErrors ==
    {[response |-> <<>>, message |-> m] :
        m \in {"timeout of 60000ms exceeded", "getaddrinfo ENOTFOUND"}}

\* error.response?.data is truthy
HasResponseData(error) ==
    /\ error.response # <<>>
    /\ error.response[1].data # <<>>

\* error.response.data.message ("" when the body has no message)
DataMessage(error) ==
    LET m == error.response[1].data[1].message
    IN  IF m = <<>> THEN "" ELSE m[1]

\* the catch block answering every failure alike, upstream status dropped
ErrorResponse_always500(error, apiFallback) ==
    [status |-> 500,
     message |-> IF HasResponseData(error)
                 THEN OrElse(DataMessage(error), apiFallback)
                 ELSE OrElse(error.message, "Internal server error")]

\* catch block of /api/generate and /api/task/:taskId (lines 326-340, 370-381)
ErrorResponse(error, apiFallback) ==
    IF HasResponseData(error)
    THEN [status |-> IF error.response[1].status = 0 THEN 500
                     ELSE error.response[1].status,
          message |-> OrElse(DataMessage(error), apiFallback)]
    ELSE [status |-> 500,
          message |-> OrElse(error.message, "Internal server error")]

(***************************************************************************)
(* Object Store Uploader                                                   *)
(***************************************************************************)
S3Outcomes == {"ok", "put_fail", "sign_fail"}

\* uploadToS3 with a catch that logs the failure and returns undefined
uploadToS3_swallow(filePath, fileName, outcome) ==
    IF ~S3_ENABLED
    THEN [threw |-> TRUE, message |-> "S3 is not configured", url |-> {},
          calls |-> <<>>]
    ELSE IF filePath \notin disk
    THEN [threw |-> FALSE, message |-> "", url |-> {}, calls |-> <<>>]
    ELSE IF outcome \in {"put_fail", "sign_fail"}
    THEN [threw |-> FALSE, message |-> "", url |-> {}, calls |-> <<"s3.put">>]
    ELSE [threw |-> FALSE, message |-> "",
          url |-> {<<"presigned", clock, fileName>>},
          calls |-> <<"s3.put", "s3.url">>]

\* uploadToS3(filePath, fileName, contentType), the store behaving as outcome
uploadToS3(filePath, fileName, outcome) ==
    IF ~S3_ENABLED
    THEN [threw |-> TRUE, message |-> "S3 is not configured", url |-> {},
          calls |-> <<>>]
    ELSE IF filePath \notin disk
    THEN [threw |-> TRUE, message |-> "Failed to upload to S3: ENOENT",
          url |-> {}, calls |-> <<>>]
    ELSE IF outcome = "put_fail"
    THEN [threw |-> TRUE, message |-> "Failed to upload to S3: put",
          url |-> {}, calls |-> <<"s3.put">>]
    ELSE IF outcome = "sign_fail"
    THEN [threw |-> TRUE, message |-> "Failed to upload to S3: presign",
          url |-> {}, calls |-> <<"s3.put">>]
    ELSE [threw |-> FALSE, message |-> "",
          url |-> {<<"presigned", clock, fileName>>},
          calls |-> <<"s3.put", "s3.url">>]

(***************************************************************************)
(* Arrival of a request                                                    *)
(***************************************************************************)
FileInputs(sizes, exts) ==
    {<<>>} \cup {<<[size |-> s, ext |-> e]>> : s \in sizes, e \in exts}

\* a client posts the multipart form to /api/generate
ArriveGenerate(r) ==
    /\ pc[r] = "idle"
    /\ served < MaxRequests
    /\ \E img \in FileInputs(ImageSizes, ImageExts),
          vid \in FileInputs(VideoSizes, VideoExts),
          co \in FieldValues, md \in FieldValues :
          body' = [body EXCEPT ![r] = [image |-> img, video |-> vid,
                                       character_orientation |-> co,
                                       mode |-> md, taskId |-> ""]]
    /\ route' = [route EXCEPT ![r] = "generate"]
    /\ pc' = [pc EXCEPT ![r] = "multer"]
    /\ served' = served + 1
    /\ UNCHANGED <<clock, env, disk, files, uploadedFiles, tempFiles, imageUrl,
                   videoUrl, payload, token, upstream, calls, unlinked, res>>

\* a client requests GET /api/task/:taskId
ArriveTask(r) ==
    /\ pc[r] = "idle"
    /\ served < MaxRequests
    /\ \E t \in TaskIds : body' = [body EXCEPT ![r] = [NoBody EXCEPT !.taskId = t]]
    /\ route' = [route EXCEPT ![r] = "task"]
    /\ pc' = [pc EXCEPT ![r] = "task"]
    /\ served' = served + 1
    /\ UNCHANGED <<clock, env, disk, files, uploadedFiles, tempFiles, imageUrl,
                   videoUrl, payload, token, upstream, calls, unlinked, res>>

\* a client requests GET /api/download/:taskId
ArriveDownload(r) ==
    /\ pc[r] = "idle"
    /\ served < MaxRequests
    /\ \E t \in TaskIds : body' = [body EXCEPT ![r] = [NoBody EXCEPT !.taskId = t]]
    /\ route' = [route EXCEPT ![r] = "download"]
    /\ pc' = [pc EXCEPT ![r] = "download"]
    /\ served' = served + 1
    /\ UNCHANGED <<clock, env, disk, files, uploadedFiles, tempFiles, imageUrl,
                   videoUrl, payload, token, upstream, calls, unlinked, res>>

\* the connection of a finished request is gone; its slot takes the next one
Close(r) ==
    /\ pc[r] = "done"
    /\ route' = [route EXCEPT ![r] = "none"]
    /\ pc' = [pc EXCEPT ![r] = "idle"]
    /\ body' = [body EXCEPT ![r] = NoBody]
    /\ files' = [files EXCEPT ![r] = NoFiles]
    /\ uploadedFiles' = [uploadedFiles EXCEPT ![r] = <<>>]
    /\ tempFiles' = [tempFiles EXCEPT ![r] = <<>>]
    /\ imageUrl' = [imageUrl EXCEPT ![r] = {}]
    /\ videoUrl' = [videoUrl EXCEPT ![r] = {}]
    /\ payload' = [payload EXCEPT ![r] = {}]
    /\ token' = [token EXCEPT ![r] = {}]
    /\ upstream' = [upstream EXCEPT ![r] = <<>>]
    /\ calls' = [calls EXCEPT ![r] = <<>>]
    /\ unlinked' = [unlinked EXCEPT ![r] = {}]
    /\ res' = [res EXCEPT ![r] = <<>>]
    /\ UNCHANGED <<clock, env, disk, served>>


(***************************************************************************)
(* POST /api/generate                                                      *)
(***************************************************************************)
Paths(fs) == {fs[i].path : i \in 1..Len(fs)}

\* what the upload middleware makes of one form field: the file on disk
Stored(input, ts, rnd) ==
    IF input = <<>> THEN <<>>
    ELSE <<[path |-> UploadName(ts, rnd, input[1].ext), size |-> input[1].size,
            originalname |-> input[1].ext]>>

\* multer's fileSize limit: a part longer than the limit aborts the upload
OverLimit(input) == input # <<>> /\ input[1].size > MulterFileSize

\* upload.fields([image, video]): every part is written under uploads/ with
\* the name the filename callback gives it; a part over the fileSize limit
\* makes multer remove what it wrote and pass a MulterError to Express,
\* whose default error handler answers 500
Multer(r) ==
    /\ pc[r] = "multer"
    /\ \E rndI \in RandomDraws, rndV \in RandomDraws :
        LET img == Stored(body[r].image, clock, rndI)
            vid == Stored(body[r].video, clock, rndV)
            written == Paths(img) \cup Paths(vid)
        IN  IF OverLimit(body[r].image) \/ OverLimit(body[r].video)
            THEN /\ disk' = disk \ written
                 /\ unlinked' = [unlinked EXCEPT ![r] = written]
                 /\ files' = [files EXCEPT ![r] = [image |-> img, video |-> vid]]
                 /\ res' = [res EXCEPT ![r] =
                              <<[status |-> 500, message |-> "File too large"]>>]
                 /\ pc' = [pc EXCEPT ![r] = "done"]
            ELSE /\ disk' = disk \cup written
                 /\ files' = [files EXCEPT ![r] = [image |-> img, video |-> vid]]
                 /\ pc' = [pc EXCEPT ![r] = "handler"]
                 /\ UNCHANGED <<unlinked, res>>
    /\ UNCHANGED <<clock, env, served, route, body, uploadedFiles, tempFiles,
                   imageUrl, videoUrl, payload, token, upstream, calls>>

\* lines 216-256: the message of the 400 the validation answers, "" if it passes
ValidationError(reqFiles, reqBody) ==
    IF reqFiles.image = <<>> \/ reqFiles.video = <<>>
    THEN "Both image and video files are required"
    ELSE IF reqFiles.image[1].size > ImageMaxSize
    THEN "Image file must be less than 10MB"
    ELSE IF reqFiles.video[1].size > VideoMaxSize
    THEN "Video file must be less than 100MB"
    ELSE IF reqBody.character_orientation = "" \/ reqBody.mode = ""
    THEN "character_orientation and mode are required"
    ELSE ""

\* lines 223-225: uploadedFiles once the handler has looked at req.files
PushedFiles(reqFiles) ==
    IF reqFiles.image = <<>> \/ reqFiles.video = <<>> THEN <<>>
    ELSE <<reqFiles.image[1], reqFiles.video[1]>>

\* lines 212-258: the handler up to its first await; a failed validation
\* returns the 400 from inside the try block
GenerateValidate(r) ==
    /\ pc[r] = "handler"
    /\ uploadedFiles' = [uploadedFiles EXCEPT ![r] = PushedFiles(files[r])]
    /\ LET msg == ValidationError(files[r], body[r])
       IN  IF msg # ""
           THEN /\ res' = [res EXCEPT ![r] = <<[status |-> 400, message |-> msg]>>]
                /\ pc' = [pc EXCEPT ![r] = "done"]
           ELSE /\ pc' = [pc EXCEPT ![r] = "uploadImage"]
                /\ UNCHANGED res
    /\ UNCHANGED <<clock, env, disk, served, route, body, files, tempFiles,
                   imageUrl, videoUrl, payload, token, upstream, calls, unlinked>>

\* cleanupFiles(uploadedFiles): unlink each path, errors swallowed
cleanupFiles(fs) == disk \ Paths(fs)

\* lines 319-341: the catch block of /api/generate
GenerateCatch(r, error, moreCalls) ==
    /\ disk' = cleanupFiles(uploadedFiles[r])
    /\ unlinked' = [unlinked EXCEPT ![r] = @ \cup Paths(uploadedFiles[r])]
    /\ res' = [res EXCEPT ![r] = <<ErrorResponse(error, "Kling AI API error")>>]
    /\ calls' = [calls EXCEPT ![r] = @ \o moreCalls]
    /\ pc' = [pc EXCEPT ![r] = "done"]

\* lines 262-266: await uploadToS3(imageFile...)
GenerateUploadImage(r) ==
    /\ pc[r] = "uploadImage"
    /\ \E outcome \in S3Outcomes :
        LET f == files[r].image[1]
            up == uploadToS3(f.path, f.originalname, outcome)
        IN  IF up.threw
            THEN /\ GenerateCatch(r, ThrownError(up.message), up.calls)
                 /\ UNCHANGED imageUrl
            ELSE /\ imageUrl' = [imageUrl EXCEPT ![r] = up.url]
                 /\ calls' = [calls EXCEPT ![r] = @ \o up.calls]
                 /\ pc' = [pc EXCEPT ![r] = "uploadVideo"]
                 /\ UNCHANGED <<disk, unlinked, res>>
    /\ UNCHANGED <<clock, env, served, route, body, files, uploadedFiles,
                   tempFiles, videoUrl, payload, token, upstream>>

\* lines 270-274: await uploadToS3(videoFile...)
GenerateUploadVideo(r) ==
    /\ pc[r] = "uploadVideo"
    /\ \E outcome \in S3Outcomes :
        LET f == files[r].video[1]
            up == uploadToS3(f.path, f.originalname, outcome)
        IN  IF up.threw
            THEN /\ GenerateCatch(r, ThrownError(up.message), up.calls)
                 /\ UNCHANGED videoUrl
            ELSE /\ videoUrl' = [videoUrl EXCEPT ![r] = up.url]
                 /\ calls' = [calls EXCEPT ![r] = @ \o up.calls]
                 /\ pc' = [pc EXCEPT ![r] = "callKling"]
                 /\ UNCHANGED <<disk, unlinked, res>>
    /\ UNCHANGED <<clock, env, served, route, body, files, uploadedFiles,
                   tempFiles, imageUrl, payload, token, upstream>>

\* lines 281-288: requestPayload
RequestPayload(r) ==
    [image_url |-> imageUrl[r], video_url |-> videoUrl[r],
     character_orientation |-> body[r].character_orientation,
     mode |-> body[r].mode]

\* lines 295-302: getAuthHeaders() signs a token, axios.post sends the request
GenerateCall(r) ==
    /\ pc[r] = "callKling"
    /\ \E d \in SignDelays :
        LET signed == generateJwtToken(clock, clock + d)
        IN  /\ clock' = clock + d
            /\ IF signed.threw
               THEN /\ GenerateCatch(r, ThrownError(signed.message), <<>>)
                    /\ UNCHANGED <<token, payload>>
               ELSE /\ token' = [token EXCEPT ![r] = signed.token]
                    /\ payload' = [payload EXCEPT ![r] = {RequestPayload(r)}]
                    /\ calls' = [calls EXCEPT ![r] = Append(@, "kling.generate")]
                    /\ pc' = [pc EXCEPT ![r] = "awaitKling"]
                    /\ UNCHANGED <<disk, unlinked, res>>
    /\ UNCHANGED <<env, served, route, body, files, uploadedFiles, tempFiles,
                   imageUrl, videoUrl, upstream>>

\* an answer of the external API as axios hands it to the handler
NoError == ThrownError("")
OkReply(hasData, taskStatus, hasUrl) ==
    [kind |-> "ok", error |-> NoError, hasData |-> hasData,
     task_status |-> taskStatus, hasUrl |-> hasUrl]
ErrorReply(error) ==
    [kind |-> "error", error |-> error, hasData |-> FALSE,
     task_status |-> "", hasUrl |-> FALSE]

\* the 2xx answers to the submission: with the data object or without it
SubmitReplies == {OkReply(h, IF h THEN "submitted" ELSE "", FALSE) : h \in BOOLEAN}

\* the 2xx answers to a status query: response.data.data may be missing, and
\* task_result.videos[0].url is there or not
StatusReplies ==
    {OkReply(FALSE, "", FALSE)} \cup
    {OkReply(TRUE, st, u) : st \in TaskStatuses, u \in BOOLEAN}

\* the failures of a call to the external API
FailedReplies == {ErrorReply(e) : e \in UpstreamErrors \cup TransportErrors}

\* lines 304-317 and the catch block: the answer of the external API arrives
GenerateReply(r) ==
    /\ pc[r] = "awaitKling"
    /\ \/ \E reply \in SubmitReplies :
            /\ upstream' = [upstream EXCEPT ![r] = <<reply>>]
            /\ disk' = cleanupFiles(uploadedFiles[r])
            /\ unlinked' = [unlinked EXCEPT ![r] = @ \cup Paths(uploadedFiles[r])]
            /\ res' = [res EXCEPT ![r] =
                  IF reply.hasData
                  THEN <<[status |-> 200,
                          message |-> "Video generation task created successfully"]>>
                  ELSE <<ErrorResponse(
                            ThrownError("Cannot read properties of undefined (reading 'task_id')"),
                            "Kling AI API error")>>]
            /\ pc' = [pc EXCEPT ![r] = "done"]
            /\ UNCHANGED calls
       \/ \E reply \in FailedReplies :
            /\ upstream' = [upstream EXCEPT ![r] = <<reply>>]
            /\ GenerateCatch(r, reply.error, <<>>)
    /\ UNCHANGED <<clock, env, served, route, body, files, uploadedFiles,
                   tempFiles, imageUrl, videoUrl, payload, token>>


(***************************************************************************)
(* GET /api/task/:taskId                                                   *)
(***************************************************************************)
\* lines 352-358: getAuthHeaders() signs a token, axios.get sends the query
TaskCall(r) ==
    /\ pc[r] = "task"
    /\ \E d \in SignDelays :
        LET signed == generateJwtToken(clock, clock + d)
        IN  /\ clock' = clock + d
            /\ IF signed.threw
               THEN /\ res' = [res EXCEPT ![r] =
                                 <<ErrorResponse(ThrownError(signed.message),
                                                 "Failed to fetch task status")>>]
                    /\ pc' = [pc EXCEPT ![r] = "done"]
                    /\ UNCHANGED <<token, calls>>
               ELSE /\ token' = [token EXCEPT ![r] = signed.token]
                    /\ calls' = [calls EXCEPT ![r] = Append(@, "kling.status")]
                    /\ pc' = [pc EXCEPT ![r] = "awaitTask"]
                    /\ UNCHANGED res
    /\ UNCHANGED <<env, disk, served, route, body, files, uploadedFiles,
                   tempFiles, imageUrl, videoUrl, payload, upstream, unlinked>>

\* lines 360-382: the answer of the external API arrives
TaskReply(r) ==
    /\ pc[r] = "awaitTask"
    /\ \E reply \in StatusReplies \cup FailedReplies :
        /\ upstream' = [upstream EXCEPT ![r] = <<reply>>]
        /\ res' = [res EXCEPT ![r] =
              IF reply.kind = "ok"
              THEN <<[status |-> 200, message |-> ""]>>
              ELSE <<ErrorResponse(reply.error, "Failed to fetch task status")>>]
    /\ pc' = [pc EXCEPT ![r] = "done"]
    /\ UNCHANGED <<clock, env, disk, served, route, body, files, uploadedFiles,
                   tempFiles, imageUrl, videoUrl, payload, token, calls, unlinked>>

(***************************************************************************)
(* GET /api/download/:taskId                                               *)
(***************************************************************************)
\* lines 494-508: the catch block of /api/download, nothing sent before it
DownloadCatch(r, error, written) ==
    /\ disk' = (disk \cup written) \ SeqToSet(tempFiles[r])
    /\ unlinked' = [unlinked EXCEPT ![r] = @ \cup SeqToSet(tempFiles[r])]
    /\ res' = [res EXCEPT ![r] =
          <<[status |-> 500,
             message |-> OrElse(error.message, "Failed to process video download")]>>]
    /\ pc' = [pc EXCEPT ![r] = "done"]

\* lines 400-406: getAuthHeaders() signs a token, axios.get queries the status
DownloadCall(r) ==
    /\ pc[r] = "download"
    /\ \E d \in SignDelays :
        LET signed == generateJwtToken(clock, clock + d)
        IN  /\ clock' = clock + d
            /\ IF signed.threw
               THEN /\ DownloadCatch(r, ThrownError(signed.message), {})
                    /\ UNCHANGED <<token, calls>>
               ELSE /\ token' = [token EXCEPT ![r] = signed.token]
                    /\ calls' = [calls EXCEPT ![r] = Append(@, "kling.status")]
                    /\ pc' = [pc EXCEPT ![r] = "awaitStatus"]
                    /\ UNCHANGED <<disk, unlinked, res>>
    /\ UNCHANGED <<env, served, route, body, files, uploadedFiles, tempFiles,
                   imageUrl, videoUrl, payload, upstream>>

\* the readiness test comparing against the in-progress marker instead
NotReady_onlyProcessing(taskStatus) == taskStatus = "processing"

\* line 410: taskData.task_status !== 'succeed'
NotReady(taskStatus) == taskStatus # "succeed"

\* the URL test left out
NoVideoUrl_skipped(reply) == FALSE

\* lines 417-418: !videoUrl
NoVideoUrl(reply) == ~reply.hasUrl

\* the preconditions without the test that the logo asset exists
PreconditionStatus_noLogoCheck(reply) ==
    IF NotReady(reply.task_status) THEN 400
    ELSE IF NoVideoUrl(reply) THEN 404
    ELSE 0

\* lines 408-431: the 4xx/5xx the preconditions answer, 0 if they all pass
PreconditionStatus(reply) ==
    IF NotReady(reply.task_status) THEN 400
    ELSE IF NoVideoUrl(reply) THEN 404
    ELSE IF ~logoExists THEN 500
    ELSE 0

PreconditionMessage(status) ==
    IF status = 400 THEN "Video is not ready yet"
    ELSE IF status = 404 THEN "No video URL found for this task"
    ELSE "Logo file not found on server"

\* lines 408-442: the status arrives; the preconditions are checked, the temp
\* paths are named from two readings of the clock and the video is requested
DownloadStatus(r) ==
    /\ pc[r] = "awaitStatus"
    /\ \E reply \in StatusReplies \cup FailedReplies :
        /\ upstream' = [upstream EXCEPT ![r] = <<reply>>]
        /\ IF reply.kind # "ok"
           THEN /\ UNCHANGED <<tempFiles, clock, calls>>
                /\ DownloadCatch(r, reply.error, {})
           ELSE IF ~reply.hasData
           THEN /\ UNCHANGED <<tempFiles, clock, calls>>
                /\ DownloadCatch(r,
                      ThrownError("Cannot read properties of undefined (reading 'task_status')"),
                      {})
           ELSE IF PreconditionStatus(reply) # 0
           THEN /\ res' = [res EXCEPT ![r] =
                     <<[status |-> PreconditionStatus(reply),
                        message |-> PreconditionMessage(PreconditionStatus(reply))]>>]
                /\ pc' = [pc EXCEPT ![r] = "done"]
                /\ UNCHANGED <<tempFiles, clock, calls, disk, unlinked>>
           ELSE \E d \in SignDelays :
                /\ tempFiles' = [tempFiles EXCEPT ![r] =
                      <<TempName("temp-input", body[r].taskId, clock),
                        TempName("temp-output", body[r].taskId, clock + d)>>]
                /\ clock' = clock + d
                /\ calls' = [calls EXCEPT ![r] = Append(@, "video.get")]
                /\ pc' = [pc EXCEPT ![r] = "awaitVideo"]
                /\ UNCHANGED <<disk, unlinked, res>>
    /\ UNCHANGED <<env, served, route, body, files, uploadedFiles, imageUrl,
                   videoUrl, payload, token>>

\* lines 439-473: the video body arrives (or the GET fails); it is written to
\* tempInput and ffmpeg is started
DownloadVideo(r) ==
    /\ pc[r] = "awaitVideo"
    /\ \/ \E error \in TransportErrors :
            /\ DownloadCatch(r, error, {})
            /\ UNCHANGED calls
       \/ /\ disk' = disk \cup {tempFiles[r][1]}
          /\ calls' = [calls EXCEPT ![r] = Append(@, "ffmpeg")]
          /\ pc' = [pc EXCEPT ![r] = "awaitFfmpeg"]
          /\ UNCHANGED <<unlinked, res>>
    /\ UNCHANGED <<clock, env, served, route, body, files, uploadedFiles,
                   tempFiles, imageUrl, videoUrl, payload, token, upstream>>

\* lines 463-492: ffmpeg exits.  A failure or timeout (with or without a
\* partial output file) rejects into the catch block; on success the output
\* is stat'ed and piped into the response
DownloadFfmpeg(r) ==
    /\ pc[r] = "awaitFfmpeg"
    /\ \/ \E partial \in BOOLEAN :
            DownloadCatch(r, ThrownError("ffmpeg failed"),
                          IF partial THEN {tempFiles[r][2]} ELSE {})
       \/ /\ disk' = disk \cup {tempFiles[r][2]}
          /\ res' = [res EXCEPT ![r] = <<[status |-> 200, message |-> ""]>>]
          /\ pc' = [pc EXCEPT ![r] = "streaming"]
          /\ UNCHANGED unlinked
    /\ UNCHANGED <<clock, env, served, route, body, files, uploadedFiles,
                   tempFiles, imageUrl, videoUrl, payload, token, upstream, calls>>

StreamOutcomes == {"end", "error", "close"}

\* lines 482-491: the files the handlers of the read stream unlink when the
\* stream ends, fails, or the client closes the connection before the end
StreamCleanup(outcome, temps) ==
    IF outcome = "end" THEN SeqToSet(temps) ELSE {}

\* the read stream of tempOutput finishes one way or another
DownloadStream(r) ==
    /\ pc[r] = "streaming"
    /\ \E outcome \in StreamOutcomes :
        /\ disk' = disk \ StreamCleanup(outcome, tempFiles[r])
        /\ unlinked' = [unlinked EXCEPT ![r] =
                           @ \cup StreamCleanup(outcome, tempFiles[r])]
    /\ pc' = [pc EXCEPT ![r] = "done"]
    /\ UNCHANGED <<clock, env, served, route, body, files, uploadedFiles,
                   tempFiles, imageUrl, videoUrl, payload, token, upstream,
                   calls, res>>

(***************************************************************************)
(* The server                                                              *)
(***************************************************************************)
Next ==
    \/ Tick
    \/ \E r \in Reqs :
        \/ ArriveGenerate(r)
        \/ ArriveTask(r)
        \/ ArriveDownload(r)
        \/ Multer(r)
        \/ GenerateValidate(r)
        \/ GenerateUploadImage(r)
        \/ GenerateUploadVideo(r)
        \/ GenerateCall(r)
        \/ GenerateReply(r)
        \/ TaskCall(r)
        \/ TaskReply(r)
        \/ DownloadCall(r)
        \/ DownloadStatus(r)
        \/ DownloadVideo(r)
        \/ DownloadFfmpeg(r)
        \/ DownloadStream(r)
        \/ Close(r)

Spec == Init /\ [][Next]_vars

(***************************************************************************)
(* Concurrent requests: the event loop interleaves the steps of two        *)
(* requests of a configured server (credentials set, object store enabled, *)
(* logo in place)                                                          *)
(***************************************************************************)
InitConcurrent ==
    /\ Init
    /\ ~Blank(KLING_ACCESS_KEY)
    /\ ~Blank(KLING_SECRET_KEY)
    /\ S3_ENABLED
    /\ logoExists

\* a submission that passes the validation of lines 216-256
ArriveValidGenerate(r) ==
    /\ ArriveGenerate(r)
    /\ ValidationError([image |-> body'[r].image, video |-> body'[r].video],
                       body'[r]) = ""

NextConcurrent ==
    \/ Tick
    \/ \E r \in Slots :
        \/ ArriveValidGenerate(r)
        \/ ArriveDownload(r)
        \/ Multer(r)
        \/ GenerateValidate(r)
        \/ GenerateUploadImage(r)
        \/ GenerateUploadVideo(r)
        \/ GenerateCall(r)
        \/ GenerateReply(r)
        \/ DownloadCall(r)
        \/ DownloadStatus(r)
        \/ DownloadVideo(r)
        \/ DownloadFfmpeg(r)
        \/ DownloadStream(r)
        \/ Close(r)

SpecConcurrent == InitConcurrent /\ [][NextConcurrent]_vars


(***************************************************************************)
(* Properties                                                              *)
(***************************************************************************)
Responded(r) == res[r] # <<>>
Status(r) == res[r][1].status
Message(r) == res[r][1].message

\* the files the upload middleware wrote for request r
StoredPaths(r) == Paths(files[r].image) \cup Paths(files[r].video)

\* C1: on every exit path of POST /api/generate, unlink has been called on
\* every temp file the upload middleware stored for the request by the time
\* the response is sent.
C1_CleanupOnEveryExit ==
    \A r \in Reqs :
        (route[r] = "generate" /\ Responded(r)) => StoredPaths(r) \subseteq unlinked[r]

\* C2: a submission without the image field or without the video field is
\* answered 400 and makes no remote call: no object-store upload, no token
\* signed, no call to the external API.
C2_MissingFileIs400NoRemoteCall ==
    \A r \in Reqs :
        (route[r] = "generate" /\ (body[r].image = <<>> \/ body[r].video = <<>>))
            => /\ calls[r] = <<>>
               /\ token[r] = {}
               /\ Responded(r) => Status(r) = 400

\* C3: an image over 10 MiB or a video over 100 MiB is answered 400, and no
\* upload to the object store has happened before that answer.
Oversize(r) ==
    \/ body[r].image # <<>> /\ body[r].image[1].size > ImageMaxSize
    \/ body[r].video # <<>> /\ body[r].video[1].size > VideoMaxSize

C3_OversizeIs400BeforeUpload ==
    \A r \in Reqs :
        (route[r] = "generate" /\ Oversize(r))
            => /\ calls[r] = <<>>
               /\ Responded(r) => Status(r) = 400

\* C4: the generation call is issued only after the image upload and then the
\* video upload both succeeded and returned a URL; the payload carries two
\* presigned object-store URLs, never a missing one or a local path; a
\* request answered with an upload failure never sent a generation request.
IsRemoteUrl(u) == \E x \in u : u = {x} /\ x[1] = "presigned"

UploadFailureMessages ==
    {"S3 is not configured", "Failed to upload to S3: ENOENT",
     "Failed to upload to S3: put", "Failed to upload to S3: presign"}

SawStatus(r) ==
    /\ route[r] = "download"
    /\ upstream[r] # <<>>
    /\ upstream[r][1].kind = "ok"
    /\ upstream[r][1].hasData

Called(r, what) == \E i \in 1..Len(calls[r]) : calls[r][i] = what

\* C5: when the status reported for the task is not 'succeed', GET
\* /api/download/:taskId answers 400, never requests the video and never
\* runs ffmpeg.
C5_NotSucceededIs400NoDownload ==
    \A r \in Reqs :
        (SawStatus(r) /\ upstream[r][1].task_status # "succeed")
            => /\ Responded(r) /\ Status(r) = 400
               /\ ~Called(r, "video.get")
               /\ ~Called(r, "ffmpeg")

C5_Witness ==
    \E r \in Reqs :
        /\ SawStatus(r)
        /\ upstream[r][1].task_status = "failed"
        /\ upstream[r][1].hasUrl
        /\ logoExists
        /\ Responded(r) /\ Status(r) = 400

\* C6: when the status is 'succeed' but the result carries no video URL, GET
\* /api/download/:taskId answers 404, requests no video and creates no temp
\* file.
C6_NoVideoUrlIs404NoDownload ==
    \A r \in Reqs :
        (SawStatus(r) /\ upstream[r][1].task_status = "succeed"
                      /\ ~upstream[r][1].hasUrl)
            => /\ Responded(r) /\ Status(r) = 404
               /\ ~Called(r, "video.get")
               /\ ~Called(r, "ffmpeg")
               /\ tempFiles[r] = <<>>

C6_Witness ==
    \E r \in Reqs :
        /\ SawStatus(r)
        /\ upstream[r][1].task_status = "succeed"
        /\ ~upstream[r][1].hasUrl
        /\ logoExists
        /\ Responded(r) /\ Status(r) = 404

\* C7: once a GET /api/download/:taskId request that named its temp input
\* and output files is over, neither file exists, whatever the outcome.
C7_TempFilesGoneWhenOver ==
    \A r \in Reqs :
        (route[r] = "download" /\ pc[r] = "done" /\ tempFiles[r] # <<>>)
            => SeqToSet(tempFiles[r]) \cap disk = {}

\* C8: every token generateJwtToken returns has exp = iat + 1800 and
\* nbf = iat - 5, iat being the issued-at claim of the token itself.
C8_ExpiryAndNotBeforeFromIssuedAt ==
    \A r \in Reqs : \A t \in token[r] :
        /\ t.exp = t.iat + JwtExpSeconds
        /\ t.nbf = t.iat - JwtNbfSeconds

\* C9: when the access key or the secret is absent or empty after trimming,
\* no token is emitted and no call reaches the external API; no emitted token
\* has an empty issuer.
C9_BlankCredentialNeverSigns ==
    \A r \in Reqs :
        /\ (Blank(KLING_ACCESS_KEY) \/ Blank(KLING_SECRET_KEY))
              => /\ token[r] = {}
                 /\ ~Called(r, "kling.generate")
                 /\ ~Called(r, "kling.status")
        /\ \A t \in token[r] : t.iss # <<>>

\* the external API answered request r (submission or status poll) with an
\* error that axios attached a response body to / with no response at all
StructuredError(r) ==
    /\ route[r] \in {"generate", "task"}
    /\ upstream[r] # <<>>
    /\ upstream[r][1].kind = "error"
    /\ HasResponseData(upstream[r][1].error)

TransportFailure(r) ==
    /\ route[r] \in {"generate", "task"}
    /\ upstream[r] # <<>>
    /\ upstream[r][1].kind = "error"
    /\ upstream[r][1].error.response = <<>>

UpstreamStatus(r) == upstream[r][1].error.response[1].status
UpstreamMessage(r) == upstream[r][1].error.response[1].data[1].message

TransportAnswer(r) ==
    /\ Responded(r) /\ Status(r) = 500
    /\ Message(r) = upstream[r][1].error.message
    /\ \A m \in UpstreamMessages : <<Message(r)>> # m

\* C10 as stated: a structured error of the external API is answered with
\* exactly the upstream status code and the upstream message; a transport
\* failure is answered 500 with a message that is not the upstream's.
C10_ErrorPassedThroughVerbatim ==
    \A r \in Reqs :
        /\ StructuredError(r)
              => /\ Responded(r) /\ Status(r) = UpstreamStatus(r)
                 /\ <<Message(r)>> = UpstreamMessage(r)
        /\ TransportFailure(r) => TransportAnswer(r)

FallbackMessage(r) ==
    IF route[r] = "generate" THEN "Kling AI API error"
    ELSE "Failed to fetch task status"

\* C10 amended: a structured error is answered with exactly the upstream
\* status code, and with the upstream message when that message is present
\* and non-empty; an absent or empty upstream message is replaced by the
\* fixed fallback text of the endpoint.  A transport failure is answered 500
\* with the message of the client-side error.
C10_ErrorPassedThroughOrFallback ==
    \A r \in Reqs :
        /\ StructuredError(r)
              => /\ Responded(r) /\ Status(r) = UpstreamStatus(r)
                 /\ IF UpstreamMessage(r) \in {<<>>, <<"">>}
                    THEN Message(r) = FallbackMessage(r)
                    ELSE <<Message(r)>> = UpstreamMessage(r)
        /\ TransportFailure(r) => TransportAnswer(r)

C10_Witness ==
    \E r \in Reqs :
        /\ StructuredError(r)
        /\ route[r] = "generate"
        /\ UpstreamMessage(r) = <<"Auth failed">>
        /\ Responded(r) /\ Status(r) = 429


\* C12 as stated: when the logo asset is missing, GET /api/download/:taskId
\* fails with 500 at once: no remote fetch of any kind is made (neither the
\* status query nor the video body) and ffmpeg is not run.
C12_LogoMissingFailsBeforeAnyFetch ==
    \A r \in Reqs :
        (route[r] = "download" /\ ~logoExists)
            => /\ calls[r] = <<>>
               /\ Responded(r) => Status(r) = 500

\* C12 amended: when the logo asset is missing, the request never fetches the
\* video body, names no temp file and never runs ffmpeg; the status query is
\* still made first, and once it reports a succeeded task with a video URL
\* the answer is 500 "Logo file not found on server" (a task that is not
\* ready is answered 400 and a result without URL 404 before the logo is
\* looked at; a failed status query is answered 500).
C12_LogoMissingFailsBeforeVideoFetch ==
    \A r \in Reqs :
        (route[r] = "download" /\ ~logoExists)
            => /\ ~Called(r, "video.get")
               /\ ~Called(r, "ffmpeg")
               /\ tempFiles[r] = <<>>
               /\ (SawStatus(r) /\ upstream[r][1].task_status = "succeed"
                                /\ upstream[r][1].hasUrl)
                     => /\ Responded(r) /\ Status(r) = 500
                        /\ Message(r) = "Logo file not found on server"
                        /\ calls[r] = <<"kling.status">>
               /\ (SawStatus(r) /\ upstream[r][1].task_status # "succeed")
                     => Responded(r) /\ Status(r) = 400
               /\ (SawStatus(r) /\ upstream[r][1].task_status = "succeed"
                                /\ ~upstream[r][1].hasUrl)
                     => Responded(r) /\ Status(r) = 404

C12_Witness ==
    \E r \in Reqs :
        /\ route[r] = "download" /\ ~logoExists
        /\ SawStatus(r)
        /\ upstream[r][1].task_status = "succeed"
        /\ upstream[r][1].hasUrl
        /\ Responded(r) /\ Status(r) = 500
        /\ pc[r] = "done"


\* request r has its uploads on disk and has not yet reached its cleanup
InFlightGenerate(r) ==
    /\ route[r] = "generate"
    /\ pc[r] \in {"handler", "uploadImage", "uploadVideo", "callKling", "awaitKling"}

\* C11: under any interleaving of concurrent valid POST /api/generate
\* requests, no two requests in flight have an upload file name in common,
\* the image and the video of one request have different names, and the
\* uploads of a request in flight are still on disk (no other request
\* removed them).
C11_UploadNamesNeverShared ==
    \A r \in Slots :
        InFlightGenerate(r)
            => /\ Paths(files[r].image) \cap Paths(files[r].video) = {}
               /\ \A q \in Slots \ {r} :
                     InFlightGenerate(q) => StoredPaths(r) \cap StoredPaths(q) = {}
               /\ StoredPaths(r) \subseteq disk

\* request r has named its temp files and is not over
InFlightDownload(r) ==
    /\ route[r] = "download"
    /\ pc[r] \in {"awaitVideo", "awaitFfmpeg", "streaming"}

\* C13: under any interleaving of concurrent GET /api/download/:taskId
\* requests, also for the same task id, no two requests in flight have a temp
\* path in common, and the temp files a request is processing or streaming
\* are still on disk (no other request removed them).
C13_TempPathsNeverShared ==
    \A r \in Slots :
        InFlightDownload(r)
            => /\ \A q \in Slots \ {r} :
                     InFlightDownload(q)
                        => SeqToSet(tempFiles[r]) \cap SeqToSet(tempFiles[q]) = {}
               /\ pc[r] = "awaitFfmpeg" => tempFiles[r][1] \in disk
               /\ pc[r] = "streaming" => SeqToSet(tempFiles[r]) \subseteq disk

=============================================================================
